---- MODULE Spec2Model ----
(***************************************************************************)
(* One render of app.py, the UPI transaction dashboard: load a table from  *)
(* the uploaded file or the fallback path, normalise it, read the sidebar  *)
(* widgets, filter, aggregate, preview and export.                         *)
(*                                                                         *)
(* Text that the script parses (dates, times, amounts, month labels) is a  *)
(* sequence of one-character strings; names that are only compared are     *)
(* strings.  A cell is Missing (NaN / NaT) or Val(x).  Amounts are whole   *)
(* numbers.  A DataFrame is [isNone, cols, rows]; a row is [idx, c] with   *)
(* idx its index label and c its cells by column.                          *)
(***************************************************************************)
EXTENDS Integers, Sequences, FiniteSets, TLC

VARIABLES
    uploaded,         \* the file_uploader's value: NoUpload or a file
    fallback,         \* what read_csv finds at "filtered_upi_transactions.csv"
    pc,               \* the script's position
    df,               \* the loaded (then normalised) table, or NoData (None)
    attempts,         \* the parsers the loader called, in order
    messages,         \* st.error / st.info messages shown
    date_range,       \* date_input's value; <<>> is None
    selected_cities,
    selected_pms,
    selected_status,
    selected_amount,  \* slider's value <<lo, hi>>; <<>> is None
    df_f,             \* the filtered table
    metrics,          \* the Key Metrics row
    figs,             \* the charts rendered, by name
    exported          \* the table written by to_csv for the download button

vars == <<uploaded, fallback, pc, df, attempts, messages, date_range,
          selected_cities, selected_pms, selected_status, selected_amount,
          df_f, metrics, figs, exported>>

----------------------------------------------------------------------------
(* Bounds of the model *)

MaxRows == 2

----------------------------------------------------------------------------
(* Cells and small helpers *)

Missing == [na |-> TRUE, v |-> 0]
Val(x) == [na |-> FALSE, v |-> x]

Range(s) == {s[i] : i \in DOMAIN s}

RECURSIVE SeqSum(_)
SeqSum(s) == IF s = <<>> THEN 0 ELSE Head(s) + SeqSum(Tail(s))

SetMin(S) == CHOOSE x \in S : \A y \in S : x <= y
SetMax(S) == CHOOSE x \in S : \A y \in S : x >= y

\* Stable insertion sort, ascending by the number k, of a sequence of [k, x].
RECURSIVE InsertByKey(_, _)
InsertByKey(p, s) ==
    IF s = <<>> THEN <<p>>
    ELSE IF Head(s).k <= p.k THEN <<Head(s)>> \o InsertByKey(p, Tail(s))
    ELSE <<p>> \o s

RECURSIVE SortByKey(_)
SortByKey(s) ==
    IF s = <<>> THEN <<>>
    ELSE InsertByKey(s[Len(s)], SortByKey(SubSeq(s, 1, Len(s) - 1)))

\* The distinct values of s in order of first appearance.
RECURSIVE Distinct(_)
Distinct(s) ==
    IF s = <<>> THEN <<>>
    ELSE LET init == Distinct(SubSeq(s, 1, Len(s) - 1))
             x == s[Len(s)]
         IN IF x \in Range(init) THEN init ELSE Append(init, x)

----------------------------------------------------------------------------
(* Text: parsing and formatting, character by character *)

Digits == <<"0", "1", "2", "3", "4", "5", "6", "7", "8", "9">>

IsDigit(ch) == \E i \in 1..10 : Digits[i] = ch

DigitVal(ch) == (CHOOSE i \in 1..10 : Digits[i] = ch) - 1

AllDigits(t) == Len(t) > 0 /\ \A i \in 1..Len(t) : IsDigit(t[i])

RECURSIVE ToInt(_)
ToInt(t) ==
    IF t = <<>> THEN 0
    ELSE ToInt(SubSeq(t, 1, Len(t) - 1)) * 10 + DigitVal(t[Len(t)])

\* n written with exactly w digits, zero-padded.
RECURSIVE Fmt(_, _)
Fmt(n, w) == IF w = 0 THEN <<>> ELSE Append(Fmt(n \div 10, w - 1), Digits[(n % 10) + 1])

\* Code-point order of the characters month labels are made of.
CharOrder == <<"-", "0", "1", "2", "3", "4", "5", "6", "7", "8", "9", "N", "T", "a">>

Ord(ch) == CHOOSE i \in 1..Len(CharOrder) : CharOrder[i] = ch

RECURSIVE TextLeq(_, _)
TextLeq(a, b) ==
    IF a = <<>> THEN TRUE
    ELSE IF b = <<>> THEN FALSE
    ELSE IF Head(a) = Head(b) THEN TextLeq(Tail(a), Tail(b))
    ELSE Ord(Head(a)) < Ord(Head(b))

\* Stable insertion sort of texts, ascending.
RECURSIVE InsertText(_, _)
InsertText(t, s) ==
    IF s = <<>> THEN <<t>>
    ELSE IF TextLeq(Head(s), t) THEN <<Head(s)>> \o InsertText(t, Tail(s))
    ELSE <<t>> \o s

RECURSIVE SortTexts(_)
SortTexts(s) ==
    IF s = <<>> THEN <<>>
    ELSE InsertText(s[Len(s)], SortTexts(SubSeq(s, 1, Len(s) - 1)))

\* Code-point order of the names used as categorical values.
Vocabulary == <<"", "Amazon", "Card", "FAILED", "Flipkart", "HDFC", "Mumbai",
                "Payment", "Pune", "SBI", "SUCCESS", "Transfer", "UPI">>

Rank(name) == CHOOSE i \in 1..Len(Vocabulary) : Vocabulary[i] = name

----------------------------------------------------------------------------
(* Dates and times *)

IsLeap(y) == (y % 4 = 0 /\ y % 100 # 0) \/ y % 400 = 0

DaysInMonth(y, m) ==
    IF m = 2 THEN (IF IsLeap(y) THEN 29 ELSE 28)
    ELSE IF m \in {4, 6, 9, 11} THEN 30 ELSE 31

\* A date as one number, ordered as the calendar is.
DateKey(d) == d.y * 10000 + d.m * 100 + d.d

WeekdayNames == <<"Saturday", "Sunday", "Monday", "Tuesday", "Wednesday",
                  "Thursday", "Friday">>

\* Timestamp.day_name(), by Zeller's congruence.
day_name(d) ==
    LET mm == IF d.m < 3 THEN d.m + 12 ELSE d.m
        yy == IF d.m < 3 THEN d.y - 1 ELSE d.y
        K == yy % 100
        J == yy \div 100
        h == (d.d + ((13 * (mm + 1)) \div 5) + K + (K \div 4) + (J \div 4) + 5 * J) % 7
    IN WeekdayNames[h + 1]

\* pd.to_datetime(cell, errors="coerce") on "YYYY-MM-DD" text: a calendar
\* date, or NaT for a missing cell, other text or a day that does not exist.
to_datetime(cell) ==
    IF cell.na THEN Missing
    ELSE LET t == cell.v IN
         IF /\ Len(t) = 10
            /\ t[5] = "-" /\ t[8] = "-"
            /\ AllDigits(SubSeq(t, 1, 4))
            /\ AllDigits(SubSeq(t, 6, 7))
            /\ AllDigits(SubSeq(t, 9, 10))
         THEN LET y == ToInt(SubSeq(t, 1, 4))
                  m == ToInt(SubSeq(t, 6, 7))
                  d == ToInt(SubSeq(t, 9, 10))
              IN IF y >= 1 /\ m \in 1..12 /\ d >= 1 /\ d <= DaysInMonth(y, m)
                 THEN Val([y |-> y, m |-> m, d |-> d])
                 ELSE Missing
         ELSE Missing

\* pd.to_datetime(cell.astype(str), errors="coerce") on "HH:MM" text: a time
\* of day, or NaT (a missing cell becomes the text "nan", which is no time).
to_time(cell) ==
    IF cell.na THEN Missing
    ELSE LET t == cell.v IN
         IF /\ Len(t) = 5
            /\ t[3] = ":"
            /\ AllDigits(SubSeq(t, 1, 2))
            /\ AllDigits(SubSeq(t, 4, 5))
         THEN LET h == ToInt(SubSeq(t, 1, 2))
                  mi == ToInt(SubSeq(t, 4, 5))
              IN IF h <= 23 /\ mi <= 59
                 THEN Val([h |-> h, mi |-> mi])
                 ELSE Missing
         ELSE Missing

\* pd.to_numeric(cell, errors="coerce") on text: the number, or NaN.
to_numeric(cell) ==
    IF cell.na \/ ~AllDigits(cell.v) THEN Missing ELSE Val(ToInt(cell.v))

NaTLabel == <<"N", "a", "T">>

\* dt.to_period("M").astype(str): "YYYY-MM", and the text "NaT" for NaT.
year_month(cell) ==
    IF cell.na THEN Val(NaTLabel)
    ELSE Val(Fmt(cell.v.y, 4) \o <<"-">> \o Fmt(cell.v.m, 2))

\* dt.hour: the hour, or NaN.
hour_of(cell) == IF cell.na THEN Missing ELSE Val(cell.v.h)

----------------------------------------------------------------------------
(* Tables and files *)

FilterColumns == {"TransactionDate", "Amount", "City", "PaymentMethod", "Status"}

AllColumns == FilterColumns \cup
    {"TransactionTime", "MerchantName", "TransactionType", "BankNameSent",
     "RemainingBalance", "CustomerAge"}

NoData == [isNone |-> TRUE]
Frame(cols, rows) == [isNone |-> FALSE, cols |-> cols, rows |-> rows]

\* A file: its extension as typed, what its bytes are ("csv", "xlsx" or
\* "garbage"), whether seek(0) works on its handle, whether its header cells
\* carry surrounding blanks, and the table it holds: the given rows, cut to
\* the given columns.
NoUpload == [present |-> FALSE]
File(ext, kind, seekable, padded, cols, rows) ==
    [present |-> TRUE, ext |-> ext, kind |-> kind, seekable |-> seekable,
     padded |-> padded, cols |-> cols,
     rows |-> [i \in 1..Len(rows) |-> [k \in cols |-> rows[i][k]]]]

Pad(c, padded) == IF padded THEN " " \o c \o " " ELSE c

\* str.strip() of a column label.
Strip(h) ==
    IF \E c \in AllColumns : h \in {" " \o c \o " ", " " \o c, c \o " "}
    THEN CHOOSE c \in AllColumns : h \in {" " \o c \o " ", " " \o c, c \o " "}
    ELSE h

\* The DataFrame a successful parse of file f returns: RangeIndex, the header
\* cells as column labels, the cells as read.
ParsedFrame(f) ==
    Frame({Pad(c, f.padded) : c \in f.cols},
          [i \in 1..Len(f.rows) |->
              [idx |-> i - 1,
               c |-> [h \in {Pad(c, f.padded) : c \in f.cols} |-> f.rows[i][Strip(h)]]]])

\* str.lower() of a file extension.
Lower(ext) == IF ext = ".XLSX" THEN ".xlsx" ELSE IF ext = ".CSV" THEN ".csv" ELSE ext

\* Whether a parser reads file f from read position pos without raising.
Parses(parser, f, pos) ==
    /\ pos = 0
    /\ \/ parser = "read_excel" /\ f.kind = "xlsx"
       \/ parser = "read_csv" /\ f.kind = "csv"

\* The engines pd.read_csv accepts; any other raises ValueError.
CsvEngines == {"c", "python", "pyarrow", "python-fwf"}

PathEngine == "openpyxl"

\* load_from_path: read_csv(path, engine="openpyxl") inside try/except.
load_from_path(f) ==
    LET ok == /\ PathEngine \in CsvEngines
              /\ f.present
              /\ Parses("read_csv", f, 0)
    IN [df |-> IF ok THEN ParsedFrame(f) ELSE NoData,
        raised |-> FALSE,
        attempts |-> <<"read_csv">>,
        messages |-> <<>>]

\* The parser load_from_file calls after the first one raised.
RetryParser(first) == "read_csv"

\* load_from_file: the parser the extension selects; on an exception,
\* seek(0) (outside the inner try) and read_csv; on a second exception,
\* st.error and None.
load_from_file(f) ==
    LET name == Lower(f.ext)
        first == IF name = ".xlsx" \/ name = ".xls" THEN "read_excel" ELSE "read_csv"
        retry == RetryParser(first)
    IN IF Parses(first, f, 0)
       THEN [df |-> ParsedFrame(f), raised |-> FALSE,
             attempts |-> <<first>>, messages |-> <<>>]
       ELSE IF ~f.seekable
       THEN [df |-> NoData, raised |-> TRUE,
             attempts |-> <<first>>, messages |-> <<>>]
       ELSE IF Parses(retry, f, 0)
       THEN [df |-> ParsedFrame(f), raised |-> FALSE,
             attempts |-> <<first, retry>>, messages |-> <<>>]
       ELSE [df |-> NoData, raised |-> FALSE,
             attempts |-> <<first, retry>>,
             messages |-> <<"error: Could not read uploaded file">>]

----------------------------------------------------------------------------
(* The input tables *)

Row1 ==
    [TransactionDate |-> Val(<<"2", "0", "2", "4", "-", "0", "1", "-", "1", "5">>),
     TransactionTime |-> Val(<<"1", "0", ":", "3", "0">>),
     Amount |-> Val(<<"1", "0", "0">>),
     City |-> Val("Pune"),
     PaymentMethod |-> Val("UPI"),
     Status |-> Val("SUCCESS"),
     MerchantName |-> Val("Amazon"),
     TransactionType |-> Val("Payment"),
     BankNameSent |-> Val("HDFC"),
     RemainingBalance |-> Val(5000),
     CustomerAge |-> Val(30)]

Row2 ==
    [TransactionDate |-> Val(<<"2", "0", "2", "4", "-", "0", "2", "-", "2", "0">>),
     TransactionTime |-> Val(<<"2", "3", ":", "0", "5">>),
     Amount |-> Val(<<"2", "0", "0">>),
     City |-> Val("Mumbai"),
     PaymentMethod |-> Val("Card"),
     Status |-> Val("FAILED"),
     MerchantName |-> Val("Flipkart"),
     TransactionType |-> Val("Transfer"),
     BankNameSent |-> Val("SBI"),
     RemainingBalance |-> Val(7000),
     CustomerAge |-> Val(45)]

\* A date and a time that do not exist, and no city.
Row3 ==
    [TransactionDate |-> Val(<<"2", "0", "2", "4", "-", "0", "2", "-", "3", "0">>),
     TransactionTime |-> Val(<<"2", "5", ":", "6", "1">>),
     Amount |-> Val(<<"3", "0", "0">>),
     City |-> Missing,
     PaymentMethod |-> Val("UPI"),
     Status |-> Val("SUCCESS"),
     MerchantName |-> Val("Amazon"),
     TransactionType |-> Val("Payment"),
     BankNameSent |-> Val("HDFC"),
     RemainingBalance |-> Val(5000),
     CustomerAge |-> Missing]

\* An amount that is no number, and no status.
Row4 ==
    [TransactionDate |-> Val(<<"2", "0", "2", "4", "-", "0", "1", "-", "3", "1">>),
     TransactionTime |-> Val(<<"1", "0", ":", "4", "5">>),
     Amount |-> Val(<<"a", "b", "c">>),
     City |-> Val("Pune"),
     PaymentMethod |-> Val("Card"),
     Status |-> Missing,
     MerchantName |-> Val("Flipkart"),
     TransactionType |-> Val("Transfer"),
     BankNameSent |-> Val("SBI"),
     RemainingBalance |-> Missing,
     CustomerAge |-> Val(45)]

RowSet == {Row1, Row2, Row3, Row4}

\* Every table of at most MaxRows rows.
Tables == UNION {[1..n -> RowSet] : n \in 0..MaxRows}

\* The column sets of the filtering runs: everything, or one filter column
\* (or the time column) absent.
FilterRunColumns ==
    {AllColumns} \cup {AllColumns \ {c} : c \in FilterColumns \cup {"TransactionTime"}}

----------------------------------------------------------------------------
(* The script, one action per section *)

Unset == <<>>

InitWith(uploads, fallbacks) ==
    /\ uploaded \in uploads
    /\ fallback \in fallbacks
    /\ pc = "start"
    /\ df = NoData
    /\ attempts = <<>>
    /\ messages = <<>>
    /\ date_range = Unset
    /\ selected_cities = {}
    /\ selected_pms = {}
    /\ selected_status = {}
    /\ selected_amount = Unset
    /\ df_f = NoData
    /\ metrics = Unset
    /\ figs = <<>>
    /\ exported = NoData

\* Runs that vary the rows: a well-formed CSV upload, or no upload.
Init ==
    InitWith({NoUpload} \cup
             {File(".csv", "csv", TRUE, FALSE, cols, rows) :
                 cols \in FilterRunColumns, rows \in Tables},
             {NoUpload})

\* Lines 83-86: the loader dispatch.
Load ==
    /\ pc = "start"
    /\ LET r == IF uploaded.present THEN load_from_file(uploaded)
                ELSE load_from_path(fallback)
       IN /\ df' = r.df
          /\ attempts' = r.attempts
          /\ messages' = messages \o r.messages
          /\ pc' = IF r.raised THEN "raised" ELSE "loaded"
    /\ UNCHANGED <<uploaded, fallback, date_range, selected_cities, selected_pms,
                   selected_status, selected_amount, df_f, metrics, figs, exported>>

\* Lines 88-90: no data, st.info and st.stop().
NoDataHalt ==
    /\ pc = "loaded"
    /\ df.isNone
    /\ messages' = Append(messages, "info: No data found")
    /\ pc' = "stopped"
    /\ UNCHANGED <<uploaded, fallback, df, attempts, date_range, selected_cities,
                   selected_pms, selected_status, selected_amount, df_f, metrics,
                   figs, exported>>

\* Lines 95-115 on one row, whose labels are already stripped.
NormalizeRow(cols, c) ==
    LET hasDate == "TransactionDate" \in cols
        hasTime == "TransactionTime" \in cols
        hasAmount == "Amount" \in cols
        ts == IF hasDate THEN to_datetime(c["TransactionDate"]) ELSE Missing
        tm == IF hasTime THEN to_time(c["TransactionTime"]) ELSE Missing
        out == cols \cup {"YearMonth", "Hour"}
                    \cup (IF hasDate THEN {"DateOnly"} ELSE {})
                    \cup (IF hasTime THEN {"TransactionTime_parsed"} ELSE {})
    IN [k \in out |->
          CASE k = "TransactionDate" -> ts
            [] k = "DateOnly" -> ts
            [] k = "YearMonth" -> IF hasDate THEN year_month(ts) ELSE Missing
            [] k = "TransactionTime_parsed" -> tm
            [] k = "Hour" -> hour_of(tm)
            [] k = "Amount" -> to_numeric(c["Amount"])
            [] OTHER -> c[k]]

\* Lines 95-115 on the table.
NormalizeFrame(d) ==
    LET cols == {Strip(h) : h \in d.cols}
        Stripped(c) == [k \in cols |-> c[CHOOSE h \in d.cols : Strip(h) = k]]
        rows == [i \in 1..Len(d.rows) |->
                    [idx |-> d.rows[i].idx,
                     c |-> NormalizeRow(cols, Stripped(d.rows[i].c))]]
    IN Frame(cols \cup {"YearMonth", "Hour"}
                  \cup (IF "TransactionDate" \in cols THEN {"DateOnly"} ELSE {})
                  \cup (IF "TransactionTime" \in cols THEN {"TransactionTime_parsed"} ELSE {}),
             rows)

Normalize ==
    /\ pc = "loaded"
    /\ ~df.isNone
    /\ df' = NormalizeFrame(df)
    /\ pc' = "normalized"
    /\ UNCHANGED <<uploaded, fallback, attempts, messages, date_range,
                   selected_cities, selected_pms, selected_status, selected_amount,
                   df_f, metrics, figs, exported>>

----------------------------------------------------------------------------
(* Sidebar widgets, lines 122-156 *)

Column(d, col) == [i \in 1..Len(d.rows) |-> d.rows[i].c[col]]

\* The non-missing values of a column, as a set.
Present(d, col) == {cell.v : cell \in {x \in Range(Column(d, col)) : ~x.na}}

\* Series.min() / .max() of the dates, then .date(): NaT when none is valid.
MinDate(d) ==
    LET keys == {DateKey(x) : x \in Present(d, "TransactionDate")}
    IN IF keys = {} THEN Missing
       ELSE Val(CHOOSE x \in Present(d, "TransactionDate") : DateKey(x) = SetMin(keys))

MaxDate(d) ==
    LET keys == {DateKey(x) : x \in Present(d, "TransactionDate")}
    IN IF keys = {} THEN Missing
       ELSE Val(CHOOSE x \in Present(d, "TransactionDate") : DateKey(x) = SetMax(keys))

\* st.date_input("Date range", [min_d, max_d]) raises when an endpoint is
\* NaT: the widget formats each endpoint with strftime, which NaT refuses.
DateInputRaises(min_d, max_d) == min_d.na \/ max_d.na

\* What st.date_input can return for a range: one date while the user is
\* picking, or start <= end.  The user picks among the dates of the table.
DateInputValues(d) ==
    LET ds == Present(d, "TransactionDate")
    IN {<<a>> : a \in ds} \cup
       {<<p[1], p[2]>> : p \in {q \in ds \X ds : DateKey(q[1]) <= DateKey(q[2])}}

\* df[col].dropna().unique().tolist(): the distinct non-missing values, in
\* order of first appearance (the Status options).
Options(d, col) ==
    LET kept == SelectSeq(Distinct(Column(d, col)), LAMBDA x : ~x.na)
    IN [i \in 1..Len(kept) |-> kept[i].v]

\* sorted(...) of the same (the City and Payment Method options).
SortedOptions(d, col) ==
    LET keyed == [i \in 1..Len(Options(d, col)) |->
                    [k |-> Rank(Options(d, col)[i]), x |-> Options(d, col)[i]]]
    IN [i \in 1..Len(keyed) |-> SortByKey(keyed)[i].x]

\* float(df["Amount"].min(skipna=True)) and .max: NaN when none is a number.
AmountMin(d) ==
    IF Present(d, "Amount") = {} THEN Missing ELSE Val(SetMin(Present(d, "Amount")))

AmountMax(d) ==
    IF Present(d, "Amount") = {} THEN Missing ELSE Val(SetMax(Present(d, "Amount")))

\* What st.slider can return: lo <= hi within [a_min, a_max], picked among
\* the amounts of the table; with NaN bounds the slider cannot be moved off
\* its default, (NaN, NaN).
SliderValues(d) ==
    IF AmountMin(d).na THEN {<<Missing, Missing>>}
    ELSE {<<Val(p[1]), Val(p[2])>> :
             p \in {q \in Present(d, "Amount") \X Present(d, "Amount") : q[1] <= q[2]}}

Sidebar ==
    /\ pc = "normalized"
    /\ IF "TransactionDate" \in df.cols /\ DateInputRaises(MinDate(df), MaxDate(df))
       THEN /\ pc' = "raised"
            /\ UNCHANGED <<date_range, selected_cities, selected_pms,
                           selected_status, selected_amount>>
       ELSE /\ pc' = "widgets"
            /\ IF "TransactionDate" \in df.cols
               THEN date_range' \in DateInputValues(df)
               ELSE date_range' = Unset
            /\ IF "City" \in df.cols
               THEN selected_cities' \in SUBSET Range(SortedOptions(df, "City"))
               ELSE selected_cities' = {}
            /\ IF "PaymentMethod" \in df.cols
               THEN selected_pms' \in SUBSET Range(SortedOptions(df, "PaymentMethod"))
               ELSE selected_pms' = {}
            /\ IF "Status" \in df.cols
               THEN selected_status' \in SUBSET Range(Options(df, "Status"))
               ELSE selected_status' = {}
            /\ IF "Amount" \in df.cols
               THEN selected_amount' \in SliderValues(df)
               ELSE selected_amount' = Unset
    /\ UNCHANGED <<uploaded, fallback, df, attempts, messages, df_f, metrics,
                   figs, exported>>

----------------------------------------------------------------------------
(* Apply filters, lines 159-169 *)

\* (dt.date >= lo) & (dt.date <= hi): a NaT never compares true.
DateMask(rows, lo, hi) ==
    SelectSeq(rows, LAMBDA r :
        /\ ~r.c["TransactionDate"].na
        /\ DateKey(r.c["TransactionDate"].v) >= DateKey(lo)
        /\ DateKey(r.c["TransactionDate"].v) <= DateKey(hi))

\* df_f[col].isin(selected): a NaN is in no selection.
IsinMask(rows, col, selected) ==
    SelectSeq(rows, LAMBDA r : ~r.c[col].na /\ r.c[col].v \in selected)

\* CategoricalFilter with an empty selection keeping no row.
CategoricalFilterKeepNone(rows, col, selected) ==
    IF selected # {} THEN IsinMask(rows, col, selected) ELSE <<>>

\* "if selected: df_f = df_f[df_f[col].isin(selected)]".
CategoricalFilter(rows, col, selected) ==
    IF selected # {} THEN IsinMask(rows, col, selected) ELSE rows

\* AmountMask with the upper bound excluded.
AmountMaskExclusive(rows, lo, hi) ==
    SelectSeq(rows, LAMBDA r :
        /\ ~r.c["Amount"].na /\ ~lo.na /\ ~hi.na
        /\ r.c["Amount"].v >= lo.v
        /\ r.c["Amount"].v < hi.v)

\* (Amount >= lo) & (Amount <= hi): a NaN, on either side, never compares true.
AmountMask(rows, lo, hi) ==
    SelectSeq(rows, LAMBDA r :
        /\ ~r.c["Amount"].na /\ ~lo.na /\ ~hi.na
        /\ r.c["Amount"].v >= lo.v
        /\ r.c["Amount"].v <= hi.v)

\* FilterRows with the status filter indexing df instead of df_f.
FilterRowsStatusFromDf(d, dr, cities, pms, status, amount) ==
    LET r0 == d.rows
        r1 == IF dr # Unset /\ "TransactionDate" \in d.cols /\ Len(dr) = 2
              THEN DateMask(r0, dr[1], dr[2]) ELSE r0
        r2 == CategoricalFilter(r1, "City", cities)
        r3 == CategoricalFilter(r2, "PaymentMethod", pms)
        r4 == IF status # {} THEN IsinMask(r0, "Status", status) ELSE r3
        r5 == IF amount # Unset /\ "Amount" \in d.cols
              THEN AmountMask(r4, amount[1], amount[2]) ELSE r4
    IN r5

\* df.copy() and the five filters in turn, each on the result of the last.
FilterRows(d, dr, cities, pms, status, amount) ==
    LET r0 == d.rows
        r1 == IF dr # Unset /\ "TransactionDate" \in d.cols /\ Len(dr) = 2
              THEN DateMask(r0, dr[1], dr[2]) ELSE r0
        r2 == CategoricalFilter(r1, "City", cities)
        r3 == CategoricalFilter(r2, "PaymentMethod", pms)
        r4 == CategoricalFilter(r3, "Status", status)
        r5 == IF amount # Unset /\ "Amount" \in d.cols
              THEN AmountMask(r4, amount[1], amount[2]) ELSE r4
    IN r5

ApplyFilters ==
    /\ pc = "widgets"
    /\ df_f' = Frame(df.cols,
                     FilterRows(df, date_range, selected_cities, selected_pms,
                                selected_status, selected_amount))
    /\ pc' = "filtered"
    /\ UNCHANGED <<uploaded, fallback, df, attempts, messages, date_range,
                   selected_cities, selected_pms, selected_status, selected_amount,
                   metrics, figs, exported>>

----------------------------------------------------------------------------
(* Key metrics, lines 177-188 *)

\* The numbers of a column that are not NaN, in row order.
Numbers(rows, col) ==
    LET kept == SelectSeq(rows, LAMBDA r : ~r.c[col].na)
    IN [i \in 1..Len(kept) |-> kept[i].c[col].v]

\* Series.sum(skipna=True): 0 when nothing is left.
SumAmount(rows) == SeqSum(Numbers(rows, "Amount"))

\* Series.mean(skipna=True), as a fraction; NaN when nothing is left.
MeanAmount(rows) ==
    LET xs == Numbers(rows, "Amount")
    IN IF xs = <<>> THEN Missing ELSE Val([n |-> SeqSum(xs), d |-> Len(xs)])

\* Series.median(skipna=True), as a fraction; NaN when nothing is left.
MedianAmount(rows) ==
    LET xs == Numbers(rows, "Amount")
        sorted == SortByKey([i \in 1..Len(xs) |-> [k |-> xs[i], x |-> xs[i]]])
        n == Len(xs)
    IN IF n = 0 THEN Missing
       ELSE IF n % 2 = 1 THEN Val([n |-> sorted[(n + 1) \div 2].x, d |-> 1])
       ELSE Val([n |-> sorted[n \div 2].x + sorted[(n \div 2) + 1].x, d |-> 2])

Metrics ==
    /\ pc = "filtered"
    /\ metrics' =
          IF "Amount" \in df_f.cols
          THEN [count |-> Len(df_f.rows), hasAmount |-> TRUE,
                total |-> SumAmount(df_f.rows),
                avg |-> MeanAmount(df_f.rows),
                med |-> MedianAmount(df_f.rows)]
          ELSE [count |-> Len(df_f.rows), hasAmount |-> FALSE]
    /\ pc' = "metrics"
    /\ UNCHANGED <<uploaded, fallback, df, attempts, messages, date_range,
                   selected_cities, selected_pms, selected_status, selected_amount,
                   df_f, figs, exported>>

----------------------------------------------------------------------------
(* Visuals, lines 198-279 *)

\* groupby("YearMonth", as_index=False)["Amount"].sum().sort_values("YearMonth"):
\* one row per non-missing label (groupby drops NaN keys), labels ascending.
MonthlyTrend(rows) ==
    LET labelled == SelectSeq(rows, LAMBDA r : ~r.c["YearMonth"].na)
        labels == SortTexts(Distinct([i \in 1..Len(labelled) |-> labelled[i].c["YearMonth"].v]))
    IN [i \in 1..Len(labels) |->
          [YearMonth |-> labels[i],
           Amount |-> SumAmount(SelectSeq(labelled,
                          LAMBDA r : r.c["YearMonth"].v = labels[i]))]]

\* The trend chart is drawn when both columns are in the filtered table.
TrendDrawn(d) == "YearMonth" \in d.cols /\ "Amount" \in d.cols

\* Series.value_counts(): the non-missing values with their counts, the most
\* frequent first, ties in order of first appearance.
value_counts(rows, col) ==
    LET kept == SelectSeq(rows, LAMBDA r : ~r.c[col].na)
        vals == Distinct([i \in 1..Len(kept) |-> kept[i].c[col].v])
        counted == [i \in 1..Len(vals) |->
                      [k |-> 0 - Len(SelectSeq(kept, LAMBDA r : r.c[col].v = vals[i])),
                       x |-> vals[i]]]
        sorted == SortByKey(counted)
    IN [i \in 1..Len(sorted) |-> [value |-> sorted[i].x, count |-> 0 - sorted[i].k]]

TopN == 10

\* groupby("MerchantName")["Amount"].sum().sort_values(descending).head(10).
TopMerchants(rows) ==
    LET kept == SelectSeq(rows, LAMBDA r : ~r.c["MerchantName"].na)
        names == Distinct([i \in 1..Len(kept) |-> kept[i].c["MerchantName"].v])
        byName == SortByKey([i \in 1..Len(names) |-> [k |-> Rank(names[i]), x |-> names[i]]])
        summed == [i \in 1..Len(byName) |->
                     [k |-> 0 - SumAmount(SelectSeq(kept,
                                LAMBDA r : r.c["MerchantName"].v = byName[i].x)),
                      x |-> byName[i].x]]
        sorted == SortByKey(summed)
        n == IF Len(sorted) < TopN THEN Len(sorted) ELSE TopN
    IN [i \in 1..n |-> [MerchantName |-> sorted[i].x, Amount |-> 0 - sorted[i].k]]

\* The X-axis choices of the scatter plot, in the order they are appended.
ScatterCandidates(d) ==
    (IF "RemainingBalance" \in d.cols THEN <<"RemainingBalance">> ELSE <<>>) \o
    (IF "CustomerAge" \in d.cols THEN <<"CustomerAge">> ELSE <<>>)

\* The heatmap is drawn when some Hour of the filtered table is not NaN.
HeatmapDrawn(d) ==
    "Hour" \in d.cols /\ \E i \in 1..Len(d.rows) : ~d.rows[i].c["Hour"].na

\* Line 268: df_f["Weekday"] = the day name of each date (NaN for NaT), or ""
\* in every row when there is no date column.
WithWeekday(d) ==
    Frame(d.cols \cup {"Weekday"},
          [i \in 1..Len(d.rows) |->
              [idx |-> d.rows[i].idx,
               c |-> [k \in d.cols \cup {"Weekday"} |->
                        IF k = "Weekday"
                        THEN IF "TransactionDate" \in d.cols
                             THEN IF d.rows[i].c["TransactionDate"].na THEN Missing
                                  ELSE Val(day_name(d.rows[i].c["TransactionDate"].v))
                             ELSE Val("")
                        ELSE d.rows[i].c[k]]]])

WeekOrder == <<"Monday", "Tuesday", "Wednesday", "Thursday", "Friday",
               "Saturday", "Sunday">>

\* Lines 269-272: count the rows per (Weekday, Hour), pivot to Hour by
\* Weekday with 0 for an empty cell, keep the weekday columns Monday..Sunday
\* that occur.
HeatPivot(d) ==
    LET kept == SelectSeq(d.rows, LAMBDA r : ~r.c["Weekday"].na /\ ~r.c["Hour"].na)
        hoursSet == {kept[i].c["Hour"].v : i \in 1..Len(kept)}
        daysSet == {kept[i].c["Weekday"].v : i \in 1..Len(kept)}
        hours == SortByKey([i \in 1..Len(kept) |->
                              [k |-> kept[i].c["Hour"].v, x |-> kept[i].c["Hour"].v]])
        ys == Distinct([i \in 1..Len(hours) |-> hours[i].x])
        xs == SelectSeq(WeekOrder, LAMBDA w : w \in daysSet)
    IN [x |-> xs, y |-> ys,
        z |-> [h \in hoursSet, w \in Range(xs) |->
                 Len(SelectSeq(kept, LAMBDA r : r.c["Hour"].v = h /\ r.c["Weekday"].v = w))]]

\* One chart, or nothing.
Fig(drawn, name, data) == IF drawn THEN name :> data ELSE <<>>

Visuals ==
    /\ pc = "metrics"
    /\ \E scatter_x \in IF "Amount" \in df_f.cols /\ ScatterCandidates(df_f) # <<>>
                        THEN Range(ScatterCandidates(df_f)) ELSE {"none"} :
          LET heat == HeatmapDrawn(df_f)
              after == IF heat THEN WithWeekday(df_f) ELSE df_f
          IN /\ figs' =
                   Fig(TrendDrawn(df_f), "trend", MonthlyTrend(df_f.rows))
                @@ Fig("PaymentMethod" \in df_f.cols, "payment_method",
                       value_counts(df_f.rows, "PaymentMethod"))
                @@ Fig("PaymentMethod" \notin df_f.cols /\ "BankNameSent" \in df_f.cols,
                       "bank", value_counts(df_f.rows, "BankNameSent"))
                @@ Fig("TransactionType" \in df_f.cols, "transaction_type",
                       value_counts(df_f.rows, "TransactionType"))
                @@ Fig("MerchantName" \in df_f.cols /\ "Amount" \in df_f.cols,
                       "top_merchants", TopMerchants(df_f.rows))
                @@ Fig(scatter_x # "none", "scatter", [x |-> scatter_x, y |-> "Amount"])
                @@ Fig(heat, "heatmap", HeatPivot(after))
             /\ df_f' = after
    /\ pc' = "visuals"
    /\ UNCHANGED <<uploaded, fallback, df, attempts, messages, date_range,
                   selected_cities, selected_pms, selected_status, selected_amount,
                   metrics, exported>>

----------------------------------------------------------------------------
(* Data preview and download, lines 284-288 *)

PreviewMax == 200

\* The number of rows df_f.sample(min(200, len(df_f))) shows.
PreviewSize(d) == IF Len(d.rows) < PreviewMax THEN Len(d.rows) ELSE PreviewMax

PreviewDownload ==
    /\ pc = "visuals"
    /\ figs' = figs @@ ("preview" :> PreviewSize(df_f))
    /\ exported' = df_f
    /\ pc' = "done"
    /\ UNCHANGED <<uploaded, fallback, df, attempts, messages, date_range,
                   selected_cities, selected_pms, selected_status, selected_amount,
                   df_f, metrics>>

----------------------------------------------------------------------------
(* Specifications *)

Next ==
    \/ Load
    \/ NoDataHalt
    \/ Normalize
    \/ Sidebar
    \/ ApplyFilters
    \/ Metrics
    \/ Visuals
    \/ PreviewDownload

Spec == Init /\ [][Next]_vars

\* Runs that vary the columns: one valid row under every non-empty set of
\* the optional columns.
InitColumns ==
    InitWith({NoUpload} \cup
             {File(".csv", "csv", TRUE, FALSE, cols, <<Row1>>) :
                 cols \in (SUBSET AllColumns) \ {{}}},
             {NoUpload})

SpecColumns == InitColumns /\ [][Next]_vars

\* Runs that vary the file: every extension the uploader accepts, over
\* every content, seekable or not, header cells padded or not; and a
\* fallback path that is missing or holds a CSV table.
InitLoad ==
    InitWith({NoUpload} \cup
             {File(ext, kind, seekable, padded, AllColumns, <<Row1>>) :
                 ext \in {".xlsx", ".XLSX", ".csv"},
                 kind \in {"csv", "xlsx", "garbage"},
                 seekable \in BOOLEAN,
                 padded \in BOOLEAN},
             {NoUpload, File(".csv", "csv", TRUE, FALSE, AllColumns, <<Row1>>)})

SpecLoad == InitLoad /\ [][Next]_vars

----------------------------------------------------------------------------
(* What the filters are meant to keep, stated row by row *)

Categorical == {"City", "PaymentMethod", "Status"}

Selection(col) ==
    CASE col = "City" -> selected_cities
      [] col = "PaymentMethod" -> selected_pms
      [] col = "Status" -> selected_status

HasDateRange == Len(date_range) = 2 /\ "TransactionDate" \in df.cols

InDateRange(r) ==
    /\ ~r.c["TransactionDate"].na
    /\ DateKey(date_range[1]) <= DateKey(r.c["TransactionDate"].v)
    /\ DateKey(r.c["TransactionDate"].v) <= DateKey(date_range[2])

HasAmountRange == "Amount" \in df.cols

InAmountRange(r) ==
    /\ ~r.c["Amount"].na /\ ~selected_amount[1].na /\ ~selected_amount[2].na
    /\ selected_amount[1].v <= r.c["Amount"].v
    /\ r.c["Amount"].v <= selected_amount[2].v

CatActive(col) == col \in df.cols /\ Selection(col) # {}

InSelection(r, col) == ~r.c[col].na /\ r.c[col].v \in Selection(col)

\* Row r satisfies every active filter other than the one on column skip.
PassesExcept(r, skip) ==
    /\ ("TransactionDate" # skip /\ HasDateRange) => InDateRange(r)
    /\ \A col \in Categorical \ {skip} : CatActive(col) => InSelection(r, col)
    /\ ("Amount" # skip /\ HasAmountRange) => InAmountRange(r)

Kept(r) == r \in Range(df_f.rows)

----------------------------------------------------------------------------
(* Claims *)

\* C1: right after filtering, the filtered table has the columns of the
\* normalized table and its rows are rows of the normalized table, unchanged,
\* in their order and without repetition, so it has no more rows; and with a
\* non-empty selection in a categorical filter it has no more rows than the
\* same selections give with that filter left out.
C1_FilterSubsetMonotone ==
    pc = "filtered" =>
        /\ df_f.cols = df.cols
        /\ \A i \in 1..Len(df_f.rows) : df_f.rows[i] \in Range(df.rows)
        /\ \A i, j \in 1..Len(df_f.rows) :
              i < j => df_f.rows[i].idx < df_f.rows[j].idx
        /\ Len(df_f.rows) <= Len(df.rows)
        /\ selected_cities # {} =>
              Len(df_f.rows) <= Len(FilterRows(df, date_range, {}, selected_pms,
                                               selected_status, selected_amount))
        /\ selected_pms # {} =>
              Len(df_f.rows) <= Len(FilterRows(df, date_range, selected_cities, {},
                                               selected_status, selected_amount))
        /\ selected_status # {} =>
              Len(df_f.rows) <= Len(FilterRows(df, date_range, selected_cities,
                                               selected_pms, {}, selected_amount))

\* A non-empty status selection on top of other active filters has removed
\* some rows and kept others.
C1_Witness ==
    /\ pc = "filtered"
    /\ selected_status # {} /\ selected_cities # {}
    /\ Len(df_f.rows) > 0
    /\ Len(df_f.rows) < Len(df.rows)
    /\ Len(df_f.rows) < Len(FilterRows(df, date_range, selected_cities,
                                       selected_pms, {}, selected_amount))

\* C2: for each of City, PaymentMethod and Status: when the column exists
\* and at least one option is selected, the filtered table is exactly the
\* rows that pass the other filters and whose value is selected; otherwise
\* (no option selected, or no such column) it is exactly the rows that pass
\* the other filters, as if that filter were not there.
C2_EmptySelectionKeepsAll ==
    pc = "filtered" =>
        \A col \in Categorical :
            df_f.rows =
                SelectSeq(df.rows, LAMBDA r :
                    /\ PassesExcept(r, col)
                    /\ CatActive(col) => InSelection(r, col))

\* Nothing is selected for City, whose column exists, and rows are kept,
\* while a non-empty payment-method selection has removed a row.
C2_Witness ==
    /\ pc = "filtered"
    /\ "City" \in df.cols /\ selected_cities = {}
    /\ Len(df_f.rows) > 0
    /\ selected_pms # {}
    /\ \E r \in Range(df.rows) :
          /\ PassesExcept(r, "PaymentMethod")
          /\ ~InSelection(r, "PaymentMethod")
          /\ ~Kept(r)

\* C3: with two endpoints and a date column, a row dated on the start or
\* the end date that passes the other filters is kept and every row dated
\* before the start or after the end is removed; with an amount column, a
\* row whose amount equals the lower or the upper bound and that passes the
\* other filters is kept and every row whose amount is below or above the
\* bounds is removed; a range filter that is not active removes nothing.
C3_RangesInclusive ==
    pc = "filtered" =>
        \A r \in Range(df.rows) :
            /\ (HasDateRange /\ ~r.c["TransactionDate"].na) =>
                  LET k == DateKey(r.c["TransactionDate"].v)
                      lo == DateKey(date_range[1])
                      hi == DateKey(date_range[2])
                  IN /\ ((k = lo \/ k = hi) /\ PassesExcept(r, "TransactionDate"))
                        => Kept(r)
                     /\ (k < lo \/ k > hi) => ~Kept(r)
            /\ (~HasDateRange /\ PassesExcept(r, "TransactionDate")) => Kept(r)
            /\ (HasAmountRange /\ ~r.c["Amount"].na /\ ~selected_amount[1].na) =>
                  LET a == r.c["Amount"].v
                      lo == selected_amount[1].v
                      hi == selected_amount[2].v
                  IN /\ ((a = lo \/ a = hi) /\ PassesExcept(r, "Amount")) => Kept(r)
                     /\ (a < lo \/ a > hi) => ~Kept(r)
            /\ (~HasAmountRange /\ PassesExcept(r, "Amount")) => Kept(r)

\* A kept row lies on the end date and on the upper amount bound, and a
\* row dated after the end date and with an amount above the upper bound is gone.
C3_Witness ==
    /\ pc = "filtered"
    /\ HasDateRange /\ HasAmountRange /\ ~selected_amount[2].na
    /\ \E r \in Range(df_f.rows) :
          /\ ~r.c["TransactionDate"].na /\ ~r.c["Amount"].na
          /\ DateKey(r.c["TransactionDate"].v) = DateKey(date_range[2])
          /\ r.c["Amount"].v = selected_amount[2].v
    /\ \E r \in Range(df.rows) :
          /\ ~r.c["TransactionDate"].na /\ ~r.c["Amount"].na
          /\ DateKey(r.c["TransactionDate"].v) > DateKey(date_range[2])
          /\ r.c["Amount"].v > selected_amount[2].v
          /\ ~Kept(r)

----------------------------------------------------------------------------
(* Claims the script does not meet *)

\* The columns a rendered feature reads from the uploaded table.
Needs(name) ==
    CASE name = "trend" -> {"TransactionDate", "Amount"}
      [] name = "payment_method" -> {"PaymentMethod"}
      [] name = "bank" -> {"BankNameSent"}
      [] name = "transaction_type" -> {"TransactionType"}
      [] name = "top_merchants" -> {"MerchantName", "Amount"}
      [] name = "scatter" -> {"Amount", figs["scatter"].x}
      [] name = "heatmap" -> {"TransactionTime", "TransactionDate"}
      [] OTHER -> {}

\* C4: whatever optional columns the loaded table lacks, the render does not
\* raise, and at its end every chart drawn, the amount metrics and every
\* filter widget read only columns the table has: a feature that needs an
\* absent column (the monthly trend and the heatmap without TransactionDate
\* among them) is skipped.
C4_AbsentColumnFeaturesSkipped ==
    /\ pc # "raised"
    /\ pc = "done" =>
          /\ \A name \in DOMAIN figs : Needs(name) \subseteq uploaded.cols
          /\ metrics.hasAmount => "Amount" \in uploaded.cols
          /\ date_range # Unset => "TransactionDate" \in uploaded.cols
          /\ selected_amount # Unset => "Amount" \in uploaded.cols
          /\ selected_cities # {} => "City" \in uploaded.cols
          /\ selected_pms # {} => "PaymentMethod" \in uploaded.cols
          /\ selected_status # {} => "Status" \in uploaded.cols

\* The texts of the input tables that are no date, no time, no number.
BadDate == Row3["TransactionDate"]
BadTime == Row3["TransactionTime"]
BadAmount == Row4["Amount"]

\* C5: once a table with rows is loaded, each unparseable date, time or
\* amount cell is a missing value after normalization, and the run is never
\* aborted by an exception, however many cells of a column are unparseable.
C5_UnparseableNeverAborts ==
    /\ (uploaded.present /\ Len(uploaded.rows) > 0) => pc # "raised"
    /\ pc \in {"normalized", "widgets", "filtered"} =>
          \A i \in 1..Len(df.rows) :
              /\ ("TransactionDate" \in uploaded.cols
                    /\ uploaded.rows[i]["TransactionDate"] = BadDate)
                  => df.rows[i].c["TransactionDate"].na
              /\ ("TransactionTime" \in uploaded.cols
                    /\ uploaded.rows[i]["TransactionTime"] = BadTime)
                  => df.rows[i].c["Hour"].na
              /\ ("Amount" \in uploaded.cols
                    /\ uploaded.rows[i]["Amount"] = BadAmount)
                  => df.rows[i].c["Amount"].na

\* C6: the loaders never raise: after the load the script is not aborted;
\* a failed upload leaves None and an error message; and on None the script
\* shows a message and stops with nothing normalized, filtered or drawn.
C6_LoaderNeverRaises ==
    /\ pc # "raised"
    /\ (pc = "loaded" /\ df.isNone /\ uploaded.present) =>
          \E i \in 1..Len(messages) : messages[i] = "error: Could not read uploaded file"
    /\ pc = "stopped" =>
          /\ df.isNone
          /\ messages[Len(messages)] = "info: No data found"
          /\ df_f = NoData /\ figs = <<>> /\ exported = NoData

\* C7: with no upload and a readable CSV table at the fallback path, the
\* load yields that table and the script does not take the "no data" halt.
C7_FallbackTableIsLoaded ==
    (pc # "start" /\ ~uploaded.present /\ fallback.present /\ fallback.kind = "csv")
        => (~df.isNone /\ pc # "stopped")

\* The Amount total of the monthly-trend table.
TrendTotal == SeqSum([i \in 1..Len(figs["trend"]) |-> figs["trend"][i].Amount])

\* C8: whenever the filtered table has an Amount column, the amounts of the
\* monthly-trend table add up to the sum of the non-missing Amount values of
\* the filtered table, with or without a TransactionDate column.
C8_TrendSumsToTotal ==
    (pc \in {"visuals", "done"} /\ "Amount" \in df_f.cols)
        => /\ "trend" \in DOMAIN figs
           /\ TrendTotal = SumAmount(df_f.rows)

\* C9: the table exported after the aggregations has exactly the columns
\* and rows the filters produced.
C9_AggregationsLeaveTableAlone ==
    pc = "done" =>
        exported = Frame(df.cols,
                         FilterRows(df, date_range, selected_cities, selected_pms,
                                    selected_status, selected_amount))

\* The parser the extension selects, and the other one.
SelectedParser(f) ==
    IF Lower(f.ext) \in {".xlsx", ".xls"} THEN "read_excel" ELSE "read_csv"

AlternateParser(f) ==
    IF SelectedParser(f) = "read_excel" THEN "read_csv" ELSE "read_excel"

\* C10: for an upload whose handle can be rewound: if the parser selected
\* by the extension reads the file, it is the only one called; if it fails,
\* the alternate parser is called once, its table is the result when it
\* succeeds, and when it fails too an error is shown and the result is None.
C10_RetryWithAlternateParser ==
    (pc # "start" /\ uploaded.present /\ uploaded.seekable) =>
        IF Parses(SelectedParser(uploaded), uploaded, 0)
        THEN attempts = <<SelectedParser(uploaded)>>
        ELSE /\ attempts = <<SelectedParser(uploaded), AlternateParser(uploaded)>>
             /\ Parses(AlternateParser(uploaded), uploaded, 0) => ~df.isNone
             /\ ~Parses(AlternateParser(uploaded), uploaded, 0) =>
                   /\ df.isNone
                   /\ \E i \in 1..Len(messages) :
                         messages[i] = "error: Could not read uploaded file"

====
